---- MODULE Spec2Model ----
(***************************************************************************)
(* Model of weighted_elo.py: the multiplayer Elo update (expected scores,  *)
(* actual scores with tie handling, rating changes) and the weighted fold  *)
(* of the rating changes over the poll rows.                               *)
(*                                                                         *)
(* Python floats are modelled as exact rationals <<numerator, denominator>>*)
(* in lowest terms with a positive denominator.  A denominator of 0 marks  *)
(* the value of a division by zero (Python raises ZeroDivisionError).      *)
(* Dicts are modelled by their insertion order where the code depends on   *)
(* it: a ranks dict is a sequence of <<player, rank>> pairs with distinct  *)
(* players; result dicts are functions from the key set.                   *)
(***************************************************************************)
EXTENDS Integers, Sequences, FiniteSets, TLC

(***************************************************************************)
(* Bounds of the model.                                                    *)
(***************************************************************************)
NumPlayers == 4
MaxRank == 4
MaxTrials == 2

(***************************************************************************)
(* Global variables of the program (lines 153-170).                        *)
(* log_base is sqrt(10); the model keeps its square.                       *)
(***************************************************************************)
log_base_squared == 10
std_dev_coefficient == 200
game_points_coefficient == 32
elo_starting_score == 0

(***************************************************************************)
(* Exact rational arithmetic.                                              *)
(***************************************************************************)
Abs(n) == IF n < 0 THEN -n ELSE n

RECURSIVE GCD(_, _)
GCD(a, b) == IF b = 0 THEN a ELSE GCD(b, a % b)

\* n / d reduced by their greatest common divisor g, the sign in the numerator
Reduced(n, d, g) ==
    IF d < 0 THEN <<-(n \div g), -(d \div g)>> ELSE <<n \div g, d \div g>>

Norm(n, d) ==
    IF d = 0 THEN <<0, 0>> ELSE Reduced(n, d, GCD(Abs(n), Abs(d)))

Rat(n) == <<n, 1>>
Zero == Rat(0)
One == Rat(1)
Half == <<1, 2>>
Raised(x) == x[2] = 0

\* x + y over the least common denominator; g is the gcd of the denominators
AddOver(x, y, g) ==
    Norm(x[1] * (y[2] \div g) + y[1] * (x[2] \div g), (x[2] \div g) * y[2])

Add(x, y) ==
    IF Raised(x) \/ Raised(y) THEN <<0, 0>> ELSE AddOver(x, y, GCD(x[2], y[2]))

Neg(x) == <<-x[1], x[2]>>
Sub(x, y) == Add(x, Neg(y))

\* x and y are in lowest terms: so is the product once reduced crosswise
Product(a, b) == <<a[1] * b[1], a[2] * b[2]>>

Mul(x, y) ==
    IF Raised(x) \/ Raised(y) THEN <<0, 0>>
    ELSE Product(Norm(x[1], y[2]), Norm(y[1], x[2]))

\* Python's x / y: ZeroDivisionError when y is zero.
Div(x, y) ==
    IF Raised(x) \/ Raised(y) \/ y[1] = 0 THEN <<0, 0>>
    ELSE Mul(x, IF y[1] < 0 THEN <<-y[2], -y[1]>> ELSE <<y[2], y[1]>>)

Less(x, y) == x[1] * y[2] < y[1] * x[2]

\* floor(x) for a rational x
Floor(x) == x[1] \div x[2]

RECURSIVE SumSeq(_)
SumSeq(s) == IF s = <<>> THEN Zero ELSE Add(Head(s), SumSeq(Tail(s)))

RECURSIVE SumFun(_, _)
SumFun(f, S) ==
    IF S = {} THEN Zero
    ELSE LET k == CHOOSE k \in S : TRUE
         IN  Add(f[k], SumFun(f, S \ {k}))

\* math.comb(n, 2)
Comb2(n) == (n * (n - 1)) \div 2

(***************************************************************************)
(* p_logistic (lines 31-44): 1 / (1 + log_base ** (-x / std_dev_coef)).    *)
(* log_base ** (-x / c) is 10 ** (-x / (2c)), which is rational exactly    *)
(* when x is a multiple of 2c; there the model computes the code's value.  *)
(* Between two such points the value is irrational; the model takes the    *)
(* chord between the two neighbouring exact values, which keeps the curve  *)
(* increasing and keeps P(-x) = 1 - P(x).                                  *)
(***************************************************************************)
RECURSIVE Pow(_, _)
Pow(b, k) == IF k = 0 THEN 1 ELSE b * Pow(b, k - 1)

Period == 2 * std_dev_coefficient

\* 1 / (1 + 10 ** (-k))
LogisticAt(k) ==
    IF k >= 0
    THEN <<Pow(log_base_squared, k), Pow(log_base_squared, k) + 1>>
    ELSE <<1, 1 + Pow(log_base_squared, -k)>>

\* the value at k * Period + t * Period, 0 <= t < 1
LogisticBetween(k, t) ==
    IF t = Zero THEN LogisticAt(k)
    ELSE Add(LogisticAt(k), Mul(t, Sub(LogisticAt(k + 1), LogisticAt(k))))

\* the part of x above k * Period, in periods
Above(x, k) == Div(Sub(x, Rat(k * Period)), Rat(Period))

LogisticFrom(x, k) == LogisticBetween(k, Above(x, k))

p_logistic(x) == LogisticFrom(x, Floor(Div(x, Rat(Period))))

\* line 167: p_function = p_logistic
p_function(x) == p_logistic(x)

(***************************************************************************)
(* get_expected_score_multiplayer (lines 47-66).  ratings is a dict        *)
(* (function) holding the player.                                          *)
(***************************************************************************)
\* mutant: divides by the number of opponents
NumberOfGames_Opponents(ratings) == Cardinality(DOMAIN ratings) - 1

\* line 65: math.comb(len(ratings), 2)
NumberOfGames(ratings) == Comb2(Cardinality(DOMAIN ratings))

get_expected_score_multiplayer(player, ratings) ==
    LET opponents == DOMAIN ratings \ {player}
        expected_scores_by_match_up ==
            [opponent \in opponents |->
                p_function(Sub(ratings[player], ratings[opponent]))]
    IN  Div(SumFun(expected_scores_by_match_up, opponents), Rat(NumberOfGames(ratings)))

(***************************************************************************)
(* get_actual_scores_multiplayer (lines 69-105).                           *)
(***************************************************************************)
Keys(ranks) == {ranks[i][1] : i \in 1..Len(ranks)}

\* sorted(ranks.items(), key=rank): a stable sort (line 78)
RECURSIVE InsertByRank(_, _)
InsertByRank(item, sorted) ==
    IF sorted = <<>> THEN <<item>>
    ELSE IF item[2] < Head(sorted)[2] THEN <<item>> \o sorted
    ELSE <<Head(sorted)>> \o InsertByRank(item, Tail(sorted))

RECURSIVE SortedByRank(_)
SortedByRank(ranks) ==
    IF ranks = <<>> THEN <<>>
    ELSE InsertByRank(ranks[Len(ranks)], SortedByRank(SubSeq(ranks, 1, Len(ranks) - 1)))

\* line 82; ties_vector[i + 1] here is ties_vector[i] of the code
TiesVector(rank_vector) ==
    [i \in 1..(Len(rank_vector) - 1) |-> rank_vector[i] = rank_vector[i + 1]]

\* mutant: the inner while never advances
RunEnd_NoAdvance(ties_vector, pos) == pos

\* the inner while of lines 90-91 (pos is the code's 0-based position)
RECURSIVE RunEnd(_, _)
RunEnd(ties_vector, pos) ==
    IF pos < Len(ties_vector) - 1 /\ ties_vector[pos + 2]
    THEN RunEnd(ties_vector, pos + 1)
    ELSE pos

\* the outer while of lines 85-93; intervals are the code's (start, stop) slices
RECURSIVE ScanTies(_, _, _)
ScanTies(ties_vector, pos, ties_intervals) ==
    IF ~(pos < Len(ties_vector)) THEN ties_intervals
    ELSE IF ties_vector[pos + 1]
         THEN LET end == RunEnd(ties_vector, pos)
              IN  ScanTies(ties_vector, end + 1,
                           Append(ties_intervals, <<pos, end + 2>>))
         ELSE ScanTies(ties_vector, pos + 1, ties_intervals)

RankVector(ordered_ranks) == [i \in 1..Len(ordered_ranks) |-> ordered_ranks[i][2]]

TiesIntervals(ranks) == ScanTies(TiesVector(RankVector(SortedByRank(ranks))), 0, <<>>)

\* lines 98-99: the slice [start:stop] gets the mean of its values
\* statistics.mean
Mean(values) == Div(SumSeq(values), Rat(Len(values)))

\* line 99: scores_raw[slice(*interval)] = [draw_result for i in range(*interval)]
SliceAssigned(scores_raw, interval, draw_result) ==
    [i \in 1..Len(scores_raw) |->
        IF interval[1] < i /\ i <= interval[2] THEN draw_result ELSE scores_raw[i]]

DrawInterval(scores_raw, interval) ==
    SliceAssigned(scores_raw, interval,
                  Mean(SubSeq(scores_raw, interval[1] + 1, interval[2])))

RECURSIVE DrawIntervals(_, _)
DrawIntervals(scores_raw, ties_intervals) ==
    IF ties_intervals = <<>> THEN scores_raw
    ELSE DrawIntervals(DrawInterval(scores_raw, Head(ties_intervals)), Tail(ties_intervals))

\* mutant: the scores run from n down to 1
ReversedRange_FromOne(n) == [i \in 1..n |-> Rat(n - i + 1)]

\* line 96: list(reversed(range(n)))
ReversedRange(n) == [i \in 1..n |-> Rat(n - i)]

DividedBy(scores_raw, total) ==
    [i \in 1..Len(scores_raw) |-> Div(scores_raw[i], total)]

\* mutant: divides by the number of scores
Normalized_ByCount(scores_raw) == DividedBy(scores_raw, Rat(Len(scores_raw)))

\* line 102: [i / sum(scores_raw) for i in scores_raw]
Normalized(scores_raw) == DividedBy(scores_raw, SumSeq(scores_raw))

\* line 104: dict(zip(ordered_ranks.keys(), scores_normalized))
Zipped(ordered_ranks, scores_normalized) ==
    [player \in Keys(ordered_ranks) |->
        scores_normalized[CHOOSE i \in 1..Len(ordered_ranks) : ordered_ranks[i][1] = player]]

\* lines 79-102, from the sorted items
ScoresNormalized(ordered_ranks) ==
    Normalized(DrawIntervals(ReversedRange(Len(ordered_ranks)),
                             ScanTies(TiesVector(RankVector(ordered_ranks)), 0, <<>>)))

ScoresOfSorted(ordered_ranks) == Zipped(ordered_ranks, ScoresNormalized(ordered_ranks))

get_actual_scores_multiplayer(ranks) == ScoresOfSorted(SortedByRank(ranks))

(***************************************************************************)
(* get_rating_changes_multiplayer (lines 108-130).  The result records the *)
(* exception the call ends with ("none" when it returns) and the returned  *)
(* dict.                                                                   *)
(***************************************************************************)
RaisedIn(f) == \E k \in DOMAIN f : Raised(f[k])

\* mutant: scales by the number of players
ScaleFactor_Players(players) == Cardinality(players)

\* line 128: len(players) - 1
ScaleFactor(players) == Cardinality(players) - 1

NoChanges == [player \in {} |-> Zero]

\* line 121
ExpectedScores(initial_ratings) ==
    [player \in DOMAIN initial_ratings |->
        get_expected_score_multiplayer(player, initial_ratings)]

\* lines 123-128
RatingChanges(players, expected_scores, actual_scores, game_points_coef) ==
    [player \in players |->
        Mul(Rat(ScaleFactor(players)),
            Mul(Rat(game_points_coef), Sub(actual_scores[player], expected_scores[player])))]

\* lines 121-130: a division by zero in either dict ends the call
ChangesOrRaise(players, expected_scores, actual_scores, game_points_coef) ==
    IF RaisedIn(expected_scores) \/ RaisedIn(actual_scores)
    THEN [exc |-> "ZeroDivisionError", changes |-> NoChanges]
    ELSE [exc |-> "none",
          changes |-> RatingChanges(players, expected_scores, actual_scores, game_points_coef)]

get_rating_changes_multiplayer(ratings, ranks, game_points_coef) ==
    IF ~(Keys(ranks) \subseteq DOMAIN ratings)
    THEN [exc |-> "KeyError", changes |-> NoChanges]
    ELSE ChangesOrRaise(Keys(ranks),
                        ExpectedScores([player \in Keys(ranks) |-> ratings[player]]),
                        get_actual_scores_multiplayer(ranks),
                        game_points_coef)

\* mutant: the weight applies to gains only
weight_function_Gains(weight, change) == IF change[1] > 0 THEN weight ELSE 1

\* weight_function (lines 133-142)
weight_function(weight, change) == weight

(***************************************************************************)
(* Inputs.                                                                 *)
(***************************************************************************)
PlayerNames == <<"A", "B", "C", "D", "E", "F">>
Players == {PlayerNames[i] : i \in 1..NumPlayers}

\* The options the rating dict is initialised with (lines 210-214), and a
\* name that no row's all_options held.
Options == {"A", "B", "C"}
Unknown == "Z"
RowNames == <<"A", "B", "C", "Z">>

Ranks == 1..MaxRank

\* the insertion orders of a dict of len keys, and its rank values
KeyOrders(names, len) ==
    {order \in [1..len -> names] : \A i, j \in 1..len : order[i] = order[j] => i = j}

RankDict(order, values) == [i \in 1..Len(order) |-> <<order[i], values[i]>>]

\* rating dicts: ratings on the points where p_logistic is exact
RatingGrid == {Rat(k * Period) : k \in -1..2}
RatingDicts == UNION {[S -> RatingGrid] : S \in SUBSET Players}

\* The rows of data_cleaned (lines 192-202) as the fold reads them: a ranks
\* dict and a weight.  The keys of a row's dict are inserted in the order of
\* RowNames.
RowRanks == {1, 2, 3}
Weights == {-1, 0, 1}
RowDict(ranking) ==
    LET order == SelectSeq(RowNames, LAMBDA p : p \in DOMAIN ranking)
    IN  [i \in 1..Len(order) |-> <<order[i], ranking[order[i]]>>]
Rankings == UNION {[S -> RowRanks] : S \in SUBSET (Options \cup {Unknown})}

VARIABLES
    elo_ratings,              \* line 217: the running ratings
    pc,                       \* position of the fold: "loop", "applied", "raised", "done"
    rows_done,                \* rows of data_cleaned already folded
    data_row,                 \* the row being processed: [ranks, weight]
    rating_changes_weighted,  \* line 220
    exc,                      \* the exception that ended the program, or "none"
    ratings_before,           \* ratings when the current row was read
    fn,                       \* the function called directly, or "none"
    fn_pc,                    \* "call" before the call, "return" after it
    fn_ranks,                 \* its ranks argument
    fn_ratings,               \* its ratings argument
    fn_scores,                \* the dict it returned
    fn_intervals,             \* ties_intervals of the call (line 86)
    fn_exc                    \* the exception it raised, or "none"

fold_vars == <<elo_ratings, pc, rows_done, data_row, rating_changes_weighted, exc,
               ratings_before>>
fn_vars == <<fn, fn_pc, fn_ranks, fn_ratings, fn_scores, fn_intervals, fn_exc>>
vars == <<fold_vars, fn_vars>>

NoRow == [ranks |-> <<>>, weight |-> 0]

InitFold ==
    /\ elo_ratings = [option \in Options |-> Rat(elo_starting_score)]
    /\ pc = "loop"
    /\ rows_done = 0
    /\ data_row = NoRow
    /\ rating_changes_weighted = NoChanges
    /\ exc = "none"
    /\ ratings_before = [option \in Options |-> Rat(elo_starting_score)]

NoCall ==
    /\ fn = "none"
    /\ fn_pc = "return"
    /\ fn_ranks = <<>>
    /\ fn_ratings = NoChanges
    /\ fn_scores = NoChanges
    /\ fn_intervals = <<>>
    /\ fn_exc = "none"

Init == InitFold /\ NoCall

(***************************************************************************)
(* Direct calls of the functions: the arguments are drawn at the start,    *)
(* the call computes the result.                                           *)
(***************************************************************************)
\* every ranks dict over the players: every insertion order, every rank values
ActualScoresArgs ==
    /\ fn = "get_actual_scores_multiplayer"
    /\ \E len \in 0..NumPlayers :
           \E order \in KeyOrders(Players, len) :
               \E values \in [1..len -> Ranks] :
                   fn_ranks = RankDict(order, values)
    /\ fn_ratings = NoChanges

\* every rating dict over the players
ExpectedScoresArgs ==
    /\ fn = "get_expected_score_multiplayer"
    /\ fn_ranks = <<>>
    /\ fn_ratings \in RatingDicts

\* lines 319-322 and 331: a two-player game
RatingChangesArgs ==
    /\ fn = "get_rating_changes_multiplayer"
    /\ \E order \in KeyOrders(Players, 2) :
           \E values \in [1..2 -> Ranks] :
               /\ fn_ranks = RankDict(order, values)
               /\ fn_ratings \in [{order[1], order[2]} -> RatingGrid]

InitFn ==
    /\ InitFold
    /\ fn_pc = "call"
    /\ fn_scores = NoChanges
    /\ fn_intervals = <<>>
    /\ fn_exc = "none"
    /\ (ActualScoresArgs \/ ExpectedScoresArgs \/ RatingChangesArgs)

CallActualScores ==
    /\ fn_pc = "call"
    /\ fn = "get_actual_scores_multiplayer"
    /\ fn_pc' = "return"
    /\ fn_intervals' = TiesIntervals(fn_ranks)
    /\ \E scores \in {get_actual_scores_multiplayer(fn_ranks)} :
           IF RaisedIn(scores)
           THEN fn_exc' = "ZeroDivisionError" /\ fn_scores' = NoChanges
           ELSE fn_exc' = "none" /\ fn_scores' = scores
    /\ UNCHANGED <<fold_vars, fn, fn_ranks, fn_ratings>>

\* line 121: the expected score of every player of a rating dict
CallExpectedScores ==
    /\ fn_pc = "call"
    /\ fn = "get_expected_score_multiplayer"
    /\ fn_pc' = "return"
    /\ \E expected_scores \in {ExpectedScores(fn_ratings)} :
           IF RaisedIn(expected_scores)
           THEN fn_exc' = "ZeroDivisionError" /\ fn_scores' = NoChanges
           ELSE fn_exc' = "none" /\ fn_scores' = expected_scores
    /\ UNCHANGED <<fold_vars, fn, fn_ranks, fn_ratings, fn_intervals>>

CallRatingChanges ==
    /\ fn_pc = "call"
    /\ fn = "get_rating_changes_multiplayer"
    /\ fn_pc' = "return"
    /\ \E result \in {get_rating_changes_multiplayer(fn_ratings, fn_ranks,
                                                       game_points_coefficient)} :
           fn_exc' = result.exc /\ fn_scores' = result.changes
    /\ UNCHANGED <<fold_vars, fn, fn_ranks, fn_ratings, fn_intervals>>

NextFn ==
    \/ CallActualScores
    \/ CallExpectedScores
    \/ CallRatingChanges

SpecFn == InitFn /\ [][NextFn]_vars

(***************************************************************************)
(* The fold over the rows (lines 217-223).  One step reads a row, computes *)
(* the rating changes from the ratings as they stand (line 219), weights   *)
(* them (lines 220-221) and adds them to the ratings key by key (lines     *)
(* 222-223).  An exception of line 219 ends the program before line 222.   *)
(***************************************************************************)
\* lines 222-223: the loop over the keys of rating_changes_weighted
RECURSIVE ApplyChanges(_, _, _)
ApplyChanges(ratings, changes, keys) ==
    IF keys = <<>> THEN ratings
    ELSE ApplyChanges([ratings EXCEPT ![Head(keys)] = Add(@, changes[Head(keys)])],
                      changes, Tail(keys))

\* lines 220-221
WeightedChanges(rating_changes, weight) ==
    [option \in DOMAIN rating_changes |->
        Mul(Rat(weight_function(weight, rating_changes[option])), rating_changes[option])]

KeyOrder(ranks) == [i \in 1..Len(ranks) |-> ranks[i][1]]

\* mutant: every key's change is computed from the ratings the keys before it
\* have already been written to
RECURSIVE InPlaceChanges(_, _, _)
InPlaceChanges(ratings, row, keys) ==
    IF keys = <<>> THEN ratings
    ELSE LET result == get_rating_changes_multiplayer(ratings, row.ranks,
                                                      game_points_coefficient)
             changes == WeightedChanges(result.changes, row.weight)
         IN  InPlaceChanges([ratings EXCEPT ![Head(keys)] = Add(@, changes[Head(keys)])],
                            row, Tail(keys))

ProcessRow_InPlace(row) ==
    /\ pc = "loop"
    /\ rows_done < MaxTrials
    /\ data_row' = row
    /\ ratings_before' = elo_ratings
    /\ \E result \in {get_rating_changes_multiplayer(elo_ratings, row.ranks,
                                                       game_points_coefficient)} :
           IF result.exc # "none"
           THEN /\ exc' = result.exc
                /\ pc' = "raised"
                /\ UNCHANGED <<elo_ratings, rating_changes_weighted>>
           ELSE /\ rating_changes_weighted' = WeightedChanges(result.changes, row.weight)
                /\ elo_ratings' = InPlaceChanges(elo_ratings, row, KeyOrder(row.ranks))
                /\ pc' = "applied"
                /\ UNCHANGED exc
    /\ UNCHANGED <<rows_done, fn_vars>>

\* mutant: a row naming an option without a rating is skipped
ProcessRow_SkipUnknown(row) ==
    /\ pc = "loop"
    /\ rows_done < MaxTrials
    /\ data_row' = row
    /\ ratings_before' = elo_ratings
    /\ \E result \in {get_rating_changes_multiplayer(elo_ratings, row.ranks,
                                                       game_points_coefficient)} :
           IF result.exc = "KeyError"
           THEN /\ rating_changes_weighted' = NoChanges
                /\ pc' = "applied"
                /\ UNCHANGED <<elo_ratings, exc>>
           ELSE IF result.exc # "none"
           THEN /\ exc' = result.exc
                /\ pc' = "raised"
                /\ UNCHANGED <<elo_ratings, rating_changes_weighted>>
           ELSE /\ rating_changes_weighted' = WeightedChanges(result.changes, row.weight)
                /\ elo_ratings' = ApplyChanges(elo_ratings, rating_changes_weighted',
                                               KeyOrder(row.ranks))
                /\ pc' = "applied"
                /\ UNCHANGED exc
    /\ UNCHANGED <<rows_done, fn_vars>>

ProcessRow(row) ==
    /\ pc = "loop"
    /\ rows_done < MaxTrials
    /\ data_row' = row
    /\ ratings_before' = elo_ratings
    /\ \E result \in {get_rating_changes_multiplayer(elo_ratings, row.ranks,
                                                       game_points_coefficient)} :
           IF result.exc # "none"
           THEN /\ exc' = result.exc
                /\ pc' = "raised"
                /\ UNCHANGED <<elo_ratings, rating_changes_weighted>>
           ELSE /\ rating_changes_weighted' = WeightedChanges(result.changes, row.weight)
                /\ elo_ratings' = ApplyChanges(elo_ratings, rating_changes_weighted',
                                               KeyOrder(row.ranks))
                /\ pc' = "applied"
                /\ UNCHANGED exc
    /\ UNCHANGED <<rows_done, fn_vars>>

ReadRow ==
    /\ pc = "loop"
    /\ \E ranking \in Rankings : \E weight \in Weights :
           ProcessRow([ranks |-> RowDict(ranking), weight |-> weight])

\* back at line 218: the names bound by the last iteration are dead
NextIteration ==
    /\ pc = "applied"
    /\ pc' = "loop"
    /\ rows_done' = rows_done + 1
    /\ data_row' = NoRow
    /\ rating_changes_weighted' = NoChanges
    /\ ratings_before' = elo_ratings
    /\ UNCHANGED <<elo_ratings, exc, fn_vars>>

\* data_cleaned is exhausted: the program goes on to line 226
EndOfRows ==
    /\ pc = "loop"
    /\ pc' = "done"
    /\ UNCHANGED <<elo_ratings, rows_done, data_row, rating_changes_weighted, exc,
                   ratings_before, fn_vars>>

Next ==
    \/ ReadRow
    \/ NextIteration
    \/ EndOfRows

Spec == Init /\ [][Next]_vars

(***************************************************************************)
(* Properties.  The scores a ranking calls for are written here from the   *)
(* rank values alone, without the sort and the scan of the code.           *)
(***************************************************************************)
\* the number of unordered pairs of n participants
Pairs(n) == (n * (n - 1)) \div 2

RankOf(ranks, p) == ranks[CHOOSE i \in 1..Len(ranks) : ranks[i][1] = p][2]

RankedWorse(ranks, p) == {q \in Keys(ranks) : RankOf(ranks, q) > RankOf(ranks, p)}

TiedWith(ranks, p) == {q \in Keys(ranks) \ {p} : RankOf(ranks, q) = RankOf(ranks, p)}

\* (participants ranked worse + half the participants tied with p) / C(n, 2)
ScoreByRank(ranks, p) ==
    Norm(2 * Cardinality(RankedWorse(ranks, p)) + Cardinality(TiedWith(ranks, p)),
         2 * Pairs(Len(ranks)))

\* the maximal runs of equal rank in the sorted rank vector, as (start, stop)
MaximalRuns(ranks) ==
    LET values == {ranks[i][2] : i \in 1..Len(ranks)}
        Count(v) == Cardinality({i \in 1..Len(ranks) : ranks[i][2] = v})
        Before(v) == Cardinality({i \in 1..Len(ranks) : ranks[i][2] < v})
    IN  {<<Before(v), Before(v) + Count(v)>> : v \in {w \in values : Count(w) >= 2}}

Range(s) == {s[i] : i \in 1..Len(s)}

ReturnedFrom(name) == fn = name /\ fn_pc = "return"

ExampleRanks == <<<<"A", 1>>, <<"B", 2>>, <<"C", 2>>, <<"D", 4>>>>

\* C1: for every ranks dict with n >= 2 participants (any ties, any rank values)
\* get_actual_scores_multiplayer returns a dict with the keys of its input whose
\* values sum to exactly 1.
C1_ActualScoresSumToOne ==
    (ReturnedFrom("get_actual_scores_multiplayer") /\ Len(fn_ranks) >= 2) =>
        /\ fn_exc = "none"
        /\ DOMAIN fn_scores = Keys(fn_ranks)
        /\ SumFun(fn_scores, DOMAIN fn_scores) = One

C1_Witness ==
    /\ ReturnedFrom("get_actual_scores_multiplayer")
    /\ fn_ranks = <<<<"C", 3>>, <<"A", 1>>, <<"D", 3>>, <<"B", 3>>>>
    /\ fn_exc = "none"
    /\ DOMAIN fn_scores = {"A", "B", "C", "D"}

\* C2: for every rating dict of n >= 2 participants (equal ratings included) the
\* expected scores of the n participants sum to exactly 1, each being the sum of
\* its n-1 pairwise probabilities divided by C(n, 2).
C2_ExpectedScoresSumToOne ==
    (ReturnedFrom("get_expected_score_multiplayer") /\ Cardinality(DOMAIN fn_ratings) >= 2) =>
        /\ fn_exc = "none"
        /\ DOMAIN fn_scores = DOMAIN fn_ratings
        /\ SumFun(fn_scores, DOMAIN fn_scores) = One
        /\ \A p \in DOMAIN fn_ratings :
               LET others == DOMAIN fn_ratings \ {p}
                   pairwise == [q \in others |-> p_function(Sub(fn_ratings[p], fn_ratings[q]))]
               IN  Mul(fn_scores[p], Rat(Pairs(Cardinality(DOMAIN fn_ratings))))
                       = SumFun(pairwise, others)

C2_Witness ==
    /\ ReturnedFrom("get_expected_score_multiplayer")
    /\ fn_exc = "none"
    /\ DOMAIN fn_ratings = {"A", "B", "C"}
    /\ fn_ratings["A"] = Rat(Period) /\ fn_ratings["B"] = Zero /\ fn_ratings["C"] = Zero
    /\ fn_scores["A"] = <<20, 33>>

\* C3: a game of two participants a and b gives the classical Elo update:
\* when a is ranked better, delta(a) = K * (1 - P(ra - rb)) and delta(b) = -delta(a);
\* when they tie, delta(a) = K * (1/2 - P(ra - rb)).
C3_TwoPlayerElo ==
    (ReturnedFrom("get_rating_changes_multiplayer") /\ Len(fn_ranks) = 2) =>
        /\ fn_exc = "none"
        /\ \A a, b \in Keys(fn_ranks) :
               LET K == Rat(game_points_coefficient)
                   P == p_function(Sub(fn_ratings[a], fn_ratings[b]))
               IN  /\ RankOf(fn_ranks, a) < RankOf(fn_ranks, b) =>
                          /\ fn_scores[a] = Mul(K, Sub(One, P))
                          /\ fn_scores[b] = Neg(fn_scores[a])
                   /\ (a # b /\ RankOf(fn_ranks, a) = RankOf(fn_ranks, b)) =>
                          fn_scores[a] = Mul(K, Sub(Half, P))

C3_Witness ==
    /\ ReturnedFrom("get_rating_changes_multiplayer")
    /\ fn_ranks = <<<<"A", 1>>, <<"B", 2>>>>
    /\ fn_ratings["A"] = Rat(Period) /\ fn_ratings["B"] = Zero
    /\ fn_scores["A"] = <<32, 11>>
    /\ fn_scores["B"] = <<-32, 11>>

\* C8: the tie intervals of the scan are exactly the maximal runs of equal rank of
\* the sorted rank vector (each once, each of length >= 2), and every participant's
\* score is (participants ranked strictly worse + half of those tied with it)
\* / C(n, 2): it depends on the rank values only, not on the order of the dict, and
\* tied participants get equal scores.
C8_TieIntervalsAreMaximalRuns ==
    (ReturnedFrom("get_actual_scores_multiplayer") /\ Len(fn_ranks) >= 2) =>
        /\ Range(fn_intervals) = MaximalRuns(fn_ranks)
        /\ Len(fn_intervals) = Cardinality(MaximalRuns(fn_ranks))
        /\ \A i \in 1..Len(fn_intervals) : fn_intervals[i][2] - fn_intervals[i][1] >= 2
        /\ \A p \in Keys(fn_ranks) : fn_scores[p] = ScoreByRank(fn_ranks, p)
        /\ \A p, q \in Keys(fn_ranks) :
               RankOf(fn_ranks, p) = RankOf(fn_ranks, q) => fn_scores[p] = fn_scores[q]

C8_Witness ==
    /\ ReturnedFrom("get_actual_scores_multiplayer")
    /\ fn_ranks = ExampleRanks
    /\ fn_intervals = <<<<1, 3>>>>
    /\ fn_scores["A"] = Half
    /\ fn_scores["B"] = <<1, 4>>
    /\ fn_scores["C"] = <<1, 4>>
    /\ fn_scores["D"] = Zero

\* the lowest score of a returned dict
LowestScore(scores) ==
    CHOOSE x \in {scores[p] : p \in DOMAIN scores} :
        \A q \in DOMAIN scores : ~Less(scores[q], x)

WorstRanked(ranks) ==
    {p \in Keys(ranks) : \A q \in Keys(ranks) : RankOf(ranks, q) <= RankOf(ranks, p)}

RowProcessed == pc \in {"applied", "raised"}

\* the expected score of p among the keys, from the ratings before the row
ExpectedBefore(keys, p) ==
    LET others == keys \ {p}
        pairwise == [q \in others |-> p_function(Sub(ratings_before[p], ratings_before[q]))]
    IN  Div(SumFun(pairwise, others), Rat(Pairs(Cardinality(keys))))

\* weight * (n - 1) * K * (actual - expected), from the ratings before the row
DeltaBefore(row, p) ==
    LET keys == Keys(row.ranks)
    IN  Mul(Rat(row.weight * (Cardinality(keys) - 1) * game_points_coefficient),
            Sub(ScoreByRank(row.ranks, p), ExpectedBefore(keys, p)))

\* C4: every delta of a row is computed from the ratings as they stood before the
\* row and the ratings are written only once all its deltas are known: after the
\* row each participant's rating is its old rating + weight * (n-1) * K *
\* (actual - expected), and the rating of every other option is unchanged.
C4_DeltasFromSnapshot ==
    (pc = "applied") =>
        LET keys == Keys(data_row.ranks)
        IN  /\ DOMAIN rating_changes_weighted = keys
            /\ \A p \in keys : rating_changes_weighted[p] = DeltaBefore(data_row, p)
            /\ \A option \in Options :
                   elo_ratings[option] =
                       IF option \in keys
                       THEN Add(ratings_before[option], DeltaBefore(data_row, option))
                       ELSE ratings_before[option]

C4_Witness ==
    /\ pc = "applied"
    /\ rows_done = 1
    /\ data_row = [ranks |-> <<<<"A", 2>>, <<"B", 1>>, <<"C", 2>>>>, weight |-> 1]
    /\ ratings_before["A"] = Rat(16)
    /\ ratings_before["B"] = Rat(-16)
    /\ elo_ratings["B"] # Add(ratings_before["B"], Rat(32))
    /\ elo_ratings["C"] # Zero

\* C5 as stated: a row whose ranks dict has fewer than 2 participants fails with an
\* error at that row, never passing as a no-op, and leaves the ratings unchanged.
\* (The row's weight is a valid one, so that nothing else is wrong with the row.)
C5_ShortRowFails ==
    (RowProcessed /\ Len(data_row.ranks) < 2 /\ data_row.weight >= 0) =>
        /\ pc = "raised"
        /\ exc # "none"
        /\ elo_ratings = ratings_before

\* C6 as stated: a row whose weight is negative fails at that row and changes no
\* rating.  (The row's ranks name at least 2 options, all of them rated, so that
\* nothing else is wrong with the row.)
C6_NegativeWeightFails ==
    (RowProcessed /\ data_row.weight < 0
        /\ Len(data_row.ranks) >= 2 /\ Keys(data_row.ranks) \subseteq Options) =>
        /\ pc = "raised"
        /\ exc # "none"
        /\ elo_ratings = ratings_before

\* C7: a row naming a participant without a rating fails at that row and leaves the
\* ratings as they were: no key is added and no rating is changed.  The key set of
\* the ratings is at all times the one it was initialised with.
C7_UnknownParticipantFails ==
    /\ DOMAIN elo_ratings = Options
    /\ (RowProcessed /\ ~(Keys(data_row.ranks) \subseteq Options)) =>
           /\ pc = "raised"
           /\ exc = "KeyError"
           /\ elo_ratings = ratings_before

C7_Witness ==
    /\ pc = "raised"
    /\ exc = "KeyError"
    /\ rows_done = 1
    /\ data_row.ranks = <<<<"A", 1>>, <<"B", 2>>, <<"Z", 3>>>>
    /\ elo_ratings["A"] = Rat(16)
    /\ elo_ratings = ratings_before

\* C10: the weighted deltas of every row that is applied sum to 0, so that after any
\* sequence of rows the ratings sum to what they summed to at the start: the number
\* of options times the starting score.
C10_ZeroSum ==
    /\ SumFun(elo_ratings, Options) = Rat(Cardinality(Options) * elo_starting_score)
    /\ (pc = "applied") =>
           SumFun(rating_changes_weighted, DOMAIN rating_changes_weighted) = Zero

C10_Witness ==
    /\ pc = "applied"
    /\ rows_done = 1
    /\ Len(data_row.ranks) = 3
    /\ data_row.weight = -1
    /\ \A option \in Options : ratings_before[option] # Zero
    /\ \A option \in Options : rating_changes_weighted[option] # Zero

====
